---- MODULE Spec2Model ----
(***************************************************************************)
(* sysvm: an interactive client for bulk operations on vCenter VMs.        *)
(*                                                                         *)
(* The model has three parts:                                              *)
(*   - the two-level menu of sysvm/main.py (main, Command, VMCommand,      *)
(*     search_vms), including the recursion of VMCommand.do_command;       *)
(*   - the bulk operations of sysvm/__init__.py (vms_power, vms_snapshot,  *)
(*     vms_restore_snapshot, vms_destroy, vm_change_network) and the       *)
(*     poller VConn._wait_for_tasks;                                       *)
(*   - the vCenter server, as far as the client observes it: the tasks of  *)
(*     the current batch, and each VM's power state and existence.         *)
(*                                                                         *)
(* Calls in tail position (main.py:167, main.py:262, Command.do_command)   *)
(* return straight through their caller, so `stack` holds only the frames  *)
(* that still have code to run after the call they made returns:           *)
(* main.py:109 (ret = "snapcancel") and main.py:160 (ret = "cmd").         *)
(***************************************************************************)
EXTENDS Integers, Sequences, FiniteSets, TLC

\* Number of VMs in the vCenter inventory.
NumVMs == 2
\* Largest number of suspended VMCommand.do_command frames.
MaxDepth == 1

VMs == 1..NumVMs

VARIABLES
    pc,         \* position of the program
    connected,  \* vc.connect() returned (vc.vcenter is set)
    cur,        \* running VMCommand.do_command frame: command, vms, Confirm answer
    stack,      \* suspended VMCommand.do_command frames, innermost first
    todo,       \* VMs the CHANGE_NETWORK loop has not handled yet
    out,        \* what the most recent program step printed ("none": nothing)
    alive,      \* server: VMs that exist
    power,      \* server: vm.runtime.powerState
    batch,      \* VMs a task of the current _wait_for_tasks call runs on
    bop,        \* the API method that created the batch's tasks
    tstate,     \* server: task.info.state of the task on each VM of the batch
    reported,   \* property collector: the state it last delivered for each task
    task_list,  \* _wait_for_tasks: tasks still pending
    state       \* _wait_for_tasks: local variable `state`

vars == <<pc, connected, cur, stack, todo, out, alive, power,
          batch, bop, tstate, reported, task_list, state>>

progVars == <<pc, connected, cur, stack, todo, out>>
waitVars == <<batch, bop, tstate, reported, task_list, state>>
vmVars   == <<alive, power>>

\* ---------------------------------------------------------------- values

\* vm.runtime.powerState; the code compares it with "poweredOff" only.
PowerStates == {"poweredOn", "poweredOff"}

\* Command.get_command / VMCommand.get_command accept exactly these choices.
TopChoices == {"l", "s", "q", "?"}
VMChoices  == {"on", "off", "s", "r", "n", "d", "v", "c", "q", "?"}

\* Messages that report a completed operation.
SuccessMsgs == {"Powered on.", "Powered off.", "Snapshot created",
                "Restored latest snapshot.", "Changed network", "Deleted from disk."}

Idle == [cmd |-> "none", vms |-> {}, confirmed |-> FALSE, cancelled |-> FALSE]

\* A VMCommand.do_command(vc, vms) frame running command c.
Frame(c, vs) == [cmd |-> c, vms |-> vs, confirmed |-> FALSE, cancelled |-> FALSE]

NoTasks == [v \in VMs |-> "none"]

Min(S) == CHOOSE x \in S : \A y \in S : x <= y

\* ------------------------------------------------- VConn._wait_for_tasks

\* Variant of StateChangeNames without the `if change.name == "info"` branch.
StateChangeNamesInfoStateOnly == {"info.state"}

\* Names of the changes that carry a task state (the if / elif of the loop body).
StateChangeNames == {"info", "info.state"}

\* Variant of SkipChange without the `else: continue`.
SkipChangeNever(name) == FALSE

\* `else: continue`: a change of any other property is skipped.
SkipChange(name) == name \notin StateChangeNames

\* Variant of Raises without the `elif ... error: raise` branch.
RaisesNever(st) == FALSE

\* `elif state == vim.TaskInfo.State.error: raise task.info.error`
Raises(st) == st = "error"

\* The assignment to `state`: change.val.state for "info", change.val for
\* "info.state"; any other change leaves the variable as it was.
NewState(ch, st) ==
    IF ch.name \in StateChangeNames THEN ch.val ELSE st

\* The loops over update.filterSet / objectSet / changeSet, change by change.
\* pending: task_list; st: `state`; raised: the loop left by `raise`.
RECURSIVE ProcessChanges(_, _, _)
ProcessChanges(changes, pending, st) ==
    IF changes = <<>>
    THEN [pending |-> pending, state |-> st, raised |-> FALSE]
    ELSE LET ch  == Head(changes)
             st2 == NewState(ch, st)
         IN  IF SkipChange(ch.name)
             THEN ProcessChanges(Tail(changes), pending, st2)
             ELSE IF ch.task \notin pending
             THEN ProcessChanges(Tail(changes), pending, st2)
             ELSE IF st2 = "success"
             THEN ProcessChanges(Tail(changes), pending \ {ch.task}, st2)
             ELSE IF Raises(st2)
             THEN [pending |-> pending, state |-> st2, raised |-> TRUE]
             ELSE ProcessChanges(Tail(changes), pending, st2)

\* ------------------------------------------------------ vCenter (server)

\* task.info.state. The client tells three cases apart: success, error, and
\* neither (queued or running, written "running"); "none": no task on that VM.
TaskStates == {"running", "success", "error"}

\* Tasks whose state differs from what the property collector delivered last.
\* The first update (version "") delivers every task of the filter.
Undelivered == {v \in batch : reported[v] # tstate[v]}

\* Tasks that may report a change of another property (info.progress).
MayProgress == {v \in batch : tstate[v] = "running" /\ reported[v] # "none"}

\* The changes of one update: per task (objectSet entry), its state change,
\* named "info" when the whole TaskInfo is delivered for the first time and
\* "info.state" afterwards, then its progress change.
RECURSIVE ChangesFrom(_, _, _)
ChangesFrom(v, S, P) ==
    IF v > NumVMs THEN <<>>
    ELSE (IF v \in S
          THEN <<[task |-> v,
                  name |-> IF reported[v] = "none" THEN "info" ELSE "info.state",
                  val  |-> tstate[v]]>>
          ELSE <<>>)
         \o (IF v \in P
             THEN <<[task |-> v, name |-> "info.progress", val |-> "progress"]>>
             ELSE <<>>)
         \o ChangesFrom(v + 1, S, P)

\* What a successful task of method op does to VM v.
TaskEffect(op, v, p) ==
    CASE op = "PowerOn"  -> alive' = alive /\ power' = [power EXCEPT ![v] = "poweredOn"]
      [] op = "PowerOff" -> alive' = alive /\ power' = [power EXCEPT ![v] = "poweredOff"]
      [] op = "RevertToCurrentSnapshot" ->
                            alive' = alive /\ power' = [power EXCEPT ![v] = p]
      [] op = "Destroy"  -> alive' = alive \ {v}
                            /\ power' = [power EXCEPT ![v] = "poweredOff"]
      [] OTHER           -> UNCHANGED vmVars

\* A task that has not ended ends, in success or in error.
TaskFinish(v) ==
    /\ pc = "wait"
    /\ v \in batch
    /\ tstate[v] = "running"
    /\ \E res \in TaskStates \ {"running"} :
         /\ tstate' = [tstate EXCEPT ![v] = res]
         /\ IF res = "success"
            THEN \E p \in PowerStates : TaskEffect(bop, v, p)
            ELSE UNCHANGED vmVars
    /\ UNCHANGED <<progVars, batch, bop, reported, task_list, state>>

\* ------------------------------------------------------------- helpers

\* An uncaught exception: the traceback is printed and the process ends.
Crash(msg) ==
    /\ pc' = "crashed"
    /\ out' = msg

ClearTasks ==
    /\ batch' = {}
    /\ bop' = "none"
    /\ tstate' = NoTasks
    /\ reported' = NoTasks
    /\ task_list' = {}
    /\ state' = "None"

\* tasks = [vm.<op>() for vm in vs]; self._wait_for_tasks(tasks) up to the loop:
\* task_list holds every task, version = "", state = None. A method called on
\* a VM that no longer exists raises vmodl.fault.ManagedObjectNotFound.
IssueTasks(op, vs) ==
    IF vs \subseteq alive
    THEN /\ pc' = "wait"
         /\ out' = "none"
         /\ batch' = vs
         /\ bop' = op
         /\ tstate' = [v \in VMs |-> IF v \in vs THEN "running" ELSE "none"]
         /\ reported' = NoTasks
         /\ task_list' = vs
         /\ state' = "None"
    ELSE /\ Crash("ManagedObjectNotFound")
         /\ UNCHANGED waitVars

\* any(vm.runtime.powerState != "poweredOff" for vm in vs), evaluated in list
\* order and stopping at the first hit; reading a deleted VM raises.
AnyNotPoweredOff(vs) ==
    LET H == {v \in vs : v \notin alive \/ power[v] # "poweredOff"}
    IN  IF H = {} THEN "false"
        ELSE IF Min(H) \notin alive THEN "fault" ELSE "true"

\* Variant of PowerOffTargets without the `if` of the comprehension.
PowerOffTargetsAll(vs) == vs

\* [vm.PowerOff() for vm in vms if vm.runtime.powerState != "poweredOff"]
PowerOffTargets(vs) == {v \in vs : power[v] # "poweredOff"}

\* Variant of Proceed that runs the operation whatever the answer.
ProceedAlways(ans) == TRUE

\* `if prompt.Confirm.ask(...)`: the guarded operation runs on yes only.
Proceed(ans) == ans

\* ------------------------------------------------ the poller's steps

\* One iteration of `while task_list`: WaitForUpdates blocks until the filter
\* has a change to deliver, then every change of the update is handled.
WaitForUpdates ==
    /\ pc = "wait"
    /\ task_list # {}
    /\ \E P \in SUBSET MayProgress :
         /\ Undelivered \cup P # {}
         /\ LET changes == ChangesFrom(1, Undelivered, P)
                r       == ProcessChanges(changes, task_list, state)
            IN  /\ task_list' = r.pending
                /\ state' = r.state
                /\ IF r.raised
                   THEN Crash("Traceback: task error")
                   ELSE pc' = pc /\ out' = out
    /\ reported' = [v \in VMs |-> IF v \in Undelivered THEN tstate[v] ELSE reported[v]]
    /\ UNCHANGED <<connected, cur, stack, todo, vmVars, batch, bop, tstate>>

\* `while task_list` finds the list empty: the filter is destroyed and
\* _wait_for_tasks returns to the bulk operation that called it.
WaitReturn ==
    /\ pc = "wait"
    /\ task_list = {}
    /\ pc' = "waitdone"
    /\ UNCHANGED <<connected, cur, stack, todo, out, vmVars, waitVars>>

\* ------------------------------------------------------------ main.py

\* main(): vc.connect(password). InvalidLogin is caught and exits with
\* status 1; any other exception is not caught.
Connect ==
    /\ pc = "login"
    /\ \E res \in {"ok", "InvalidLogin", "other"} :
         CASE res = "ok" ->
                /\ pc' = "top"
                /\ connected' = TRUE
                /\ out' = "Connection established"
           [] res = "InvalidLogin" ->
                /\ pc' = "exit1"
                /\ out' = "Invalid login!"
                /\ UNCHANGED connected
           [] OTHER ->
                /\ Crash("Traceback: connect")
                /\ UNCHANGED connected
    /\ UNCHANGED <<cur, stack, todo, vmVars, waitVars>>

\* Command.get_command() followed by Command.do_command() up to the point
\* where it returns (LIST_INFO) or asks for the search query (SEARCH).
TopCommand ==
    /\ pc = "top"
    /\ \E c \in TopChoices :
         CASE c = "?" -> pc' = pc /\ out' = "help: l s q"
           [] c = "q" -> pc' = "exit0" /\ out' = "Goodbye!"
           [] c = "l" -> pc' = "return" /\ out' = "vCenter Connection Info"
           [] c = "s" -> pc' = "query" /\ out' = "none"
    /\ UNCHANGED <<connected, cur, stack, todo, vmVars, waitVars>>

\* search_vms(): the query selects the VMs res of the inventory; an empty
\* result returns, otherwise the VM-level prompt is entered with res.
SearchVMs ==
    /\ pc = "query"
    /\ \E res \in SUBSET alive, details \in BOOLEAN :
         IF res = {}
         THEN /\ pc' = "return"
              /\ out' = "No operations possible on empty VM set."
              /\ cur' = Idle
         ELSE /\ pc' = "vmprompt"
              /\ out' = IF details THEN "VM Info" ELSE "Matched VMs"
              /\ cur' = Frame("none", res)
    /\ UNCHANGED <<connected, stack, todo, vmVars, waitVars>>

\* A call chain returns: to the while loop of main() when no frame is
\* suspended; else to main.py:160 (the COMMAND case: on to the check at
\* main.py:165 and the VM-level prompt on the frame's vms) or to main.py:109
\* (the declined snapshot: on to vc.vms_power(vms, False) at main.py:111).
Return ==
    /\ pc = "return"
    /\ IF stack = <<>>
       THEN /\ pc' = "top"
            /\ out' = "none"
            /\ cur' = Idle
            /\ UNCHANGED <<stack, waitVars>>
       ELSE LET f == Head(stack)
            IN  /\ stack' = Tail(stack)
                /\ IF f.ret = "cmd"
                   THEN /\ pc' = "vmprompt"
                        /\ out' = "none"
                        /\ cur' = Frame("none", f.vms)
                        /\ UNCHANGED waitVars
                   ELSE /\ cur' = [Frame("s", f.vms) EXCEPT !.cancelled = TRUE]
                        /\ IssueTasks("PowerOff", f.vms)
    /\ UNCHANGED <<connected, todo, vmVars>>

\* VMCommand.get_command() followed by VMCommand.do_command(vc, vms) up to
\* its first prompt, bulk operation or return.
VMCommandStep ==
    /\ pc = "vmprompt"
    /\ \E c \in VMChoices :
         CASE c = "?" ->
                /\ pc' = pc /\ out' = "help: on off s r n d v c"
                /\ UNCHANGED <<cur, stack, todo, waitVars>>
           [] c = "q" ->
                /\ pc' = "exit0" /\ out' = "Goodbye!"
                /\ UNCHANGED <<cur, stack, todo, waitVars>>
           [] c \in {"on", "off", "d"} ->
                /\ pc' = "confirm" /\ out' = "none"
                /\ cur' = Frame(c, cur.vms)
                /\ UNCHANGED <<stack, todo, waitVars>>
           [] c = "s" ->
                /\ cur' = Frame("s", cur.vms)
                /\ CASE AnyNotPoweredOff(cur.vms) = "true" ->
                          pc' = "confirm" /\ out' = "none"
                     [] AnyNotPoweredOff(cur.vms) = "false" ->
                          pc' = "snapname" /\ out' = "none"
                     [] OTHER -> Crash("ManagedObjectNotFound")
                /\ UNCHANGED <<stack, todo, waitVars>>
           [] c = "r" ->
                /\ cur' = Frame("r", cur.vms)
                /\ IssueTasks("RevertToCurrentSnapshot", cur.vms)
                /\ UNCHANGED <<stack, todo>>
           [] c = "n" ->
                /\ pc' = "netloop" /\ out' = "none"
                /\ cur' = Frame("n", cur.vms)
                /\ todo' = cur.vms
                /\ UNCHANGED <<stack, waitVars>>
           [] c = "v" ->
                /\ IF cur.vms \subseteq alive
                   THEN pc' = pc /\ out' = "VM Info"
                   ELSE Crash("ManagedObjectNotFound")
                /\ UNCHANGED <<cur, stack, todo, waitVars>>
           [] c = "c" ->
                /\ Len(stack) < MaxDepth
                /\ pc' = "top" /\ out' = "none"
                /\ stack' = <<[vms |-> cur.vms, ret |-> "cmd"]>> \o stack
                /\ cur' = Idle
                /\ UNCHANGED <<todo, waitVars>>
    /\ UNCHANGED <<connected, vmVars>>

\* vms_destroy(vms) up to its first _wait_for_tasks.
VmsDestroy(vs) ==
    CASE AnyNotPoweredOff(vs) = "true" ->
           IF vs \subseteq alive
           THEN IssueTasks("PowerOff", PowerOffTargets(vs))
           ELSE Crash("ManagedObjectNotFound") /\ UNCHANGED waitVars
      [] AnyNotPoweredOff(vs) = "false" -> IssueTasks("Destroy", vs)
      [] OTHER -> Crash("ManagedObjectNotFound") /\ UNCHANGED waitVars

\* The answer to a prompt.Confirm.ask of VMCommand.do_command, and what the
\* command does with it.
Confirm ==
    /\ pc = "confirm"
    /\ \E ans \in BOOLEAN :
         CASE cur.cmd \in {"on", "off"} ->
                IF Proceed(ans)
                THEN /\ cur' = [cur EXCEPT !.confirmed = ans]
                     /\ IssueTasks(IF cur.cmd = "on" THEN "PowerOn" ELSE "PowerOff",
                                   cur.vms)
                     /\ UNCHANGED stack
                ELSE /\ pc' = "vmprompt" /\ out' = "none"
                     /\ cur' = Frame("none", cur.vms)
                     /\ UNCHANGED <<stack, waitVars>>
           [] cur.cmd = "d" ->
                IF Proceed(ans)
                THEN /\ cur' = [cur EXCEPT !.confirmed = ans]
                     /\ VmsDestroy(cur.vms)
                     /\ UNCHANGED stack
                ELSE /\ pc' = "return" /\ out' = "none"
                     /\ cur' = Idle
                     /\ UNCHANGED <<stack, waitVars>>
           [] cur.cmd = "s" ->
                IF ans
                THEN /\ cur' = [cur EXCEPT !.confirmed = ans]
                     /\ IssueTasks("PowerOff", cur.vms)
                     /\ UNCHANGED stack
                ELSE /\ Len(stack) < MaxDepth
                     /\ pc' = "vmprompt"
                     /\ out' = "Cancelling snapshot creation."
                     /\ stack' = <<[vms |-> cur.vms, ret |-> "snapcancel"]>> \o stack
                     /\ cur' = Frame("none", cur.vms)
                     /\ UNCHANGED waitVars
    /\ UNCHANGED <<connected, todo, vmVars>>

\* The snapshot name is entered: vc.vms_snapshot(vms, name).
SnapshotName ==
    /\ pc = "snapname"
    /\ IssueTasks("CreateSnapshot", cur.vms)
    /\ UNCHANGED <<connected, cur, stack, todo, vmVars>>

\* CHANGE_NETWORK: one iteration of `for vm in vms` up to vm_change_network's
\* _wait_for_tasks, or the end of the loop.
NetworkLoop ==
    /\ pc = "netloop"
    /\ IF todo = {}
       THEN /\ pc' = "vmprompt" /\ out' = "none"
            /\ cur' = Frame("none", cur.vms)
            /\ UNCHANGED waitVars
       ELSE /\ IssueTasks("Reconfigure", {Min(todo)})
            /\ UNCHANGED cur
    /\ UNCHANGED <<connected, stack, todo, vmVars>>

\* The bulk operation's _wait_for_tasks returned: the rest of the operation
\* and of the command, up to the next prompt.
AfterWait ==
    /\ pc = "waitdone"
    /\ CASE cur.cmd = "d" /\ bop = "PowerOff" ->
              /\ IssueTasks("Destroy", cur.vms)
              /\ UNCHANGED <<cur, todo>>
         [] cur.cmd = "d" /\ bop = "Destroy" ->
              /\ pc' = "return" /\ out' = "Deleted from disk."
              /\ cur' = Idle
              /\ ClearTasks
              /\ UNCHANGED todo
         [] cur.cmd = "s" /\ bop = "PowerOff" ->
              /\ pc' = "snapname" /\ out' = "Powered off."
              /\ ClearTasks
              /\ UNCHANGED <<cur, todo>>
         [] cur.cmd = "n" ->
              /\ pc' = "netloop" /\ out' = "Changed network"
              /\ todo' = todo \ batch
              /\ ClearTasks
              /\ UNCHANGED cur
         [] OTHER ->
              /\ pc' = "vmprompt"
              /\ out' = CASE cur.cmd = "on"  -> "Powered on."
                          [] cur.cmd = "off" -> "Powered off."
                          [] cur.cmd = "s"   -> "Snapshot created"
                          [] OTHER           -> "Restored latest snapshot."
              /\ cur' = Frame("none", cur.vms)
              /\ ClearTasks
              /\ UNCHANGED todo
    /\ UNCHANGED <<connected, stack, vmVars>>

\* ------------------------------------------------------- specification

\* The program starts at the password prompt; the inventory holds NumVMs
\* VMs in any power state.
Init ==
    /\ pc = "login"
    /\ connected = FALSE
    /\ cur = Idle
    /\ stack = <<>>
    /\ todo = {}
    /\ out = "none"
    /\ alive = VMs
    /\ power \in [VMs -> PowerStates]
    /\ batch = {}
    /\ bop = "none"
    /\ tstate = NoTasks
    /\ reported = NoTasks
    /\ task_list = {}
    /\ state = "None"

Next ==
    \/ Connect
    \/ TopCommand
    \/ SearchVMs
    \/ Return
    \/ VMCommandStep
    \/ Confirm
    \/ SnapshotName
    \/ NetworkLoop
    \/ AfterWait
    \/ WaitForUpdates
    \/ WaitReturn
    \/ \E v \in VMs : TaskFinish(v)

Spec == Init /\ [][Next]_vars

\* _wait_for_tasks alone, entered by vms_power(vms, True) (POWER_ON, confirmed)
\* or vms_restore_snapshot(vms) (RESTORE_LATEST) on any non-empty VM set.
WaitInit ==
    /\ pc = "wait"
    /\ connected = TRUE
    /\ stack = <<>>
    /\ todo = {}
    /\ out = "none"
    /\ alive = VMs
    /\ power \in [VMs -> PowerStates]
    /\ \E vs \in (SUBSET VMs) \ {{}} :
         /\ batch = vs
         /\ task_list = vs
         /\ tstate = [v \in VMs |-> IF v \in vs THEN "running" ELSE "none"]
         /\ \/ cur = [Frame("on", vs) EXCEPT !.confirmed = TRUE] /\ bop = "PowerOn"
            \/ cur = Frame("r", vs) /\ bop = "RevertToCurrentSnapshot"
    /\ reported = NoTasks
    /\ state = "None"

WaitNext ==
    \/ WaitForUpdates
    \/ WaitReturn
    \/ \E v \in VMs : TaskFinish(v)

\* Every task ends, WaitForUpdates returns once the filter has a change, and
\* the poller's own thread keeps running.
WaitFairness ==
    /\ WF_vars(WaitForUpdates)
    /\ WF_vars(WaitReturn)
    /\ \A v \in VMs : WF_vars(TaskFinish(v))

WaitSpec == WaitInit /\ [][WaitNext]_vars /\ WaitFairness

\* ---------------------------------------------------------------- claims

\* The state changes the next update delivers.
NextStateChanges == ChangesFrom(1, Undelivered, {})

ReportsNow(v, st) ==
    \E i \in DOMAIN NextStateChanges :
        /\ NextStateChanges[i].task = v
        /\ NextStateChanges[i].name \in {"info", "info.state"}
        /\ NextStateChanges[i].val = st

C1_Returned ==
    pc = "waitdone" =>
        \A v \in batch : tstate[v] = "success" /\ reported[v] = "success"

C1_Removal ==
    \A v \in task_list \ task_list' : pc = "wait" /\ ReportsNow(v, "success")

\* C1: _wait_for_tasks returns normally only when every task of its batch was
\* observed in state success: a task leaves task_list only in an update that
\* holds an "info" or "info.state" change reporting success for that task, and
\* at the return every task of the batch is in state success and was delivered
\* as such.
C1_ReturnsOnlyOnSuccess == [](C1_Returned) /\ [][C1_Removal]_vars

\* C1 witness: _wait_for_tasks returned from a batch of two or more tasks.
C1_Witness == pc = "waitdone" /\ Cardinality(batch) >= 2

C2_RaiseStep ==
    (/\ pc = "wait"
     /\ reported' # reported
     /\ \E v \in task_list : ReportsNow(v, "error"))
    => (pc' = "crashed" /\ out' = "Traceback: task error")

C2_NoSuccess == pc = "crashed" => out \notin SuccessMsgs

\* C2: the update that reports state error for a pending task makes the call
\* raise in that very step, whatever the other pending tasks do; the exception
\* ends the program, which prints no success message and takes no further step.
C2_RaisesOnFirstError ==
    /\ [](C2_NoSuccess)
    /\ [][C2_RaiseStep]_vars
    /\ [][pc # "crashed"]_vars

\* C2 witness: the call raised on a task error while another task of the
\* batch was still pending and had not ended.
C2_Witness ==
    /\ pc = "crashed"
    /\ out = "Traceback: task error"
    /\ \E v \in task_list : tstate[v] = "running"

C3_Inv ==
    /\ pc \in {"top", "query", "vmprompt", "confirm", "snapname", "netloop"} => connected
    /\ pc \in {"vmprompt", "confirm", "snapname", "netloop"} => cur.vms # {}

C3_EmptySearch ==
    (pc = "return" /\ out = "No operations possible on empty VM set.")
    => pc' = "top"

\* C3: connect -> search -> act: prompts are shown only after a successful
\* login, VM-level commands run only on a non-empty set that a search
\* produced, and a search with zero results is followed by the top-level
\* prompt.
C3_ConnectSearchAct == [](C3_Inv) /\ [][C3_EmptySearch]_vars

\* C4: after "c" the VM-level prompt is not shown again for the set that was
\* selected before: a top-level command that returns is followed by the
\* top-level prompt, never by the VM-level prompt.
C4_BackToTopLevel == [][~(pc = "return" /\ pc' = "vmprompt")]_vars

\* C5: a snapshot command whose power-off confirmation was declined issues
\* neither PowerOff nor CreateSnapshot tasks.
C5_CancelledSnapshotIssuesNothing ==
    ~(cur.cmd = "s" /\ cur.cancelled /\ bop \in {"PowerOff", "CreateSnapshot"})

C6_PromptAgain ==
    (pc = "waitdone" /\ cur.cmd \in {"on", "off", "r"})
    => (pc' = "vmprompt" /\ cur'.vms = cur.vms)

C6_NoUseAfterDelete ==
    ~(/\ pc = "crashed"
      /\ out = "ManagedObjectNotFound"
      /\ cur.vms # {}
      /\ cur.vms \cap alive = {})

\* C6: after a VM-level command other than delete the VM-level prompt is shown
\* again for the same set, and no operation is issued against a set whose VMs
\* have all been deleted from disk (the server would answer such a request
\* with ManagedObjectNotFound).
C6_NoOperationOnDeletedSet == [](C6_NoUseAfterDelete) /\ [][C6_PromptAgain]_vars

C7_PowerOffStep ==
    (pc = "confirm" /\ cur.cmd = "d" /\ pc' = "wait")
    => LET T == {v \in cur.vms : power[v] # "poweredOff"}
       IN  IF T # {}
           THEN bop' = "PowerOff" /\ batch' = T
           ELSE bop' = "Destroy" /\ batch' = cur.vms

C7_DestroyStep ==
    (bop' = "Destroy" /\ bop # "Destroy")
    => /\ cur.cmd = "d"
       /\ batch' = cur.vms
       /\ \/ pc = "confirm" /\ \A v \in cur.vms : power[v] = "poweredOff"
          \/ /\ pc = "waitdone"
             /\ bop = "PowerOff"
             /\ \A v \in batch : tstate[v] = "success" /\ reported[v] = "success"

C7_NothingDestroyedYet ==
    (cur.cmd = "d" /\ bop = "PowerOff") => cur.vms \subseteq alive

\* C7: vms_destroy issues PowerOff to exactly the VMs of the set that are not
\* powered off, issues Destroy only when there were none or when every one of
\* those PowerOff tasks was observed successful, and while the PowerOff batch
\* is the current one (also after one of its tasks failed) no VM of the set
\* has been destroyed.
C7_PowerOffBeforeDestroy ==
    /\ [](C7_NothingDestroyedYet)
    /\ [][C7_PowerOffStep]_vars
    /\ [][C7_DestroyStep]_vars

\* C7 witness: vms_destroy powered off a proper, non-empty part of its set, saw
\* every PowerOff succeed and is about to issue Destroy.
C7_Witness ==
    /\ pc = "waitdone"
    /\ cur.cmd = "d"
    /\ bop = "PowerOff"
    /\ batch # {}
    /\ batch # cur.vms

\* C8: under WaitFairness a call of _wait_for_tasks ends, by returning or by
\* raising.
C8_WaitTerminates == (pc = "wait") ~> (pc \in {"waitdone", "crashed"})

\* C8 witness: every task of a batch of two or more has ended, one of them in
\* error, and the call has ended by raising.
C8_Witness ==
    /\ pc = "crashed"
    /\ Cardinality(batch) >= 2
    /\ \A v \in batch : tstate[v] \in {"success", "error"}

C9_Issued ==
    /\ bop = "Destroy" => (cur.cmd = "d" /\ cur.confirmed)
    /\ bop = "PowerOn" => (cur.cmd = "on" /\ cur.confirmed)
    /\ (bop = "PowerOff" /\ cur.cmd \in {"off", "d"}) => cur.confirmed

C9_Declined ==
    (/\ pc = "confirm"
     /\ cur.cmd \in {"on", "off", "d"}
     /\ pc' # "confirm"
     /\ ~cur'.confirmed)
    => (/\ bop' = "none"
        /\ batch' = {}
        /\ out' \notin SuccessMsgs
        /\ pc' \in {"vmprompt", "return"})

\* C9: Destroy tasks and the tasks of the menu's power on / power off commands
\* exist only in a command whose confirmation was answered yes; a declined
\* confirmation leads to the next prompt (or to the return of a delete) with
\* no task issued and no success message printed.
C9_OnlyAfterConfirmation == [](C9_Issued) /\ [][C9_Declined]_vars

\* C9 witness: Destroy tasks are in flight after "Really delete?" was
\* answered yes.
C9_Witness == pc = "wait" /\ bop = "Destroy" /\ cur.cmd = "d" /\ cur.confirmed

====
